---- MODULE Spec2Model ----
(***************************************************************************)
(* Model of "01 - Prompt Engineering/Prompt Engineering clone.py".         *)
(*                                                                         *)
(* Two parts of the notebook are modelled:                                 *)
(*   - run_llm_chain (lines 106-127): PromptTemplate construction,         *)
(*     LLMChain.run = check of the input keys, str.format filling of the   *)
(*     template, one call of the model, return of the generated text;      *)
(*   - the MLflow cells (lines 236-284): set_experiment,                   *)
(*     get_experiment_by_name, start_run / log_model / end of the with     *)
(*     block, search_runs + sort by start_time, register_model.            *)
(*                                                                         *)
(* PromptTemplate and LLMChain are library classes; their behaviour on the  *)
(* paths run_llm_chain takes is modelled as steps of run_llm_chain.  The    *)
(* notebook does not pin the library version, and releases differ in one    *)
(* point: whether PromptTemplate checks the declared input_variables        *)
(* against the template (validate_template) or replaces them by the         *)
(* variables found in the template.  Both are behaviours of the code, the   *)
(* choice is made once in Init.                                             *)
(*                                                                         *)
(* A string is a sequence of text elements.  "{" and "}" are the brace     *)
(* characters, every other element stands for a run of brace-free text     *)
(* ("input_string", "question", "prefix ", ...).                           *)
(***************************************************************************)
EXTENDS Naturals, Sequences, FiniteSets

\* ------------------------------------------------------------------ bounds
MaxLen == 5
MaxOtherRuns == 2

\* ------------------------------------------------------- strings, templates
Alphabet == {"a", "{", "}", "input_string"}

BoundedSeq(S, n) == UNION {[1..k -> S] : k \in 0..n}

\* the templates the notebook defines, reduced to their brace structure
intro_template == <<"a", "{", "question", "}", "a">>
zero_shot_template == <<"a", "{", "input_string", "}", "a">>
few_shot_template == <<"a", "a", "{", "input_string", "}", "a">>
chain_of_reasoning_prompt == <<"a", "a", "{", "input_string", "}">>
no_hallucinations_prompt == <<"a", "a", "a", "{", "input_string", "}">>

\* templates of the component's stated examples, and a malformed one
prefix_y_suffix == <<"prefix ", "{", "y", "}", " suffix">>
prefix_key_suffix == <<"prefix ", "{", "input_string", "}", " suffix">>
no_placeholder == <<"prefix ", " suffix">>
unclosed_brace == <<"prefix ", "{", "input_string">>

NamedTemplates ==
  {intro_template, zero_shot_template, few_shot_template,
   chain_of_reasoning_prompt, no_hallucinations_prompt,
   prefix_y_suffix, prefix_key_suffix, no_placeholder, unclosed_brace}

Templates == BoundedSeq(Alphabet, MaxLen) \cup NamedTemplates

Inputs == {<<>>, <<"X">>, <<"{", "a", "}">>}

\* the key run_llm_chain declares and fills
FillKey == <<"input_string">>

\* ------------------------------------------------------------ str.format
Literal(c) == [lit |-> TRUE, s |-> <<c>>]
Field(name) == [lit |-> FALSE, s |-> name]

FirstClose(s) ==
  IF \E j \in 2..Len(s) : s[j] = "}"
  THEN CHOOSE j \in 2..Len(s) : s[j] = "}" /\ \A k \in 2..(j-1) : s[k] # "}"
  ELSE 0

\* string.Formatter.parse: literal text, "{{" and "}}" escapes, "{name}"
\* fields; a single brace or a brace inside a field name is a ValueError
RECURSIVE FormatterParse(_)
FormatterParse(s) ==
  IF s = <<>> THEN [ok |-> TRUE, tokens |-> <<>>]
  ELSE IF Head(s) = "{" THEN
    IF Len(s) >= 2 /\ s[2] = "{" THEN
      LET rest == FormatterParse(SubSeq(s, 3, Len(s)))
      IN [ok |-> rest.ok, tokens |-> <<Literal("{")>> \o rest.tokens]
    ELSE
      LET close == FirstClose(s)
      IN IF close = 0 \/ \E k \in 2..(close-1) : s[k] = "{"
         THEN [ok |-> FALSE, tokens |-> <<>>]
         ELSE LET rest == FormatterParse(SubSeq(s, close + 1, Len(s)))
              IN [ok |-> rest.ok,
                  tokens |-> <<Field(SubSeq(s, 2, close - 1))>> \o rest.tokens]
  ELSE IF Head(s) = "}" THEN
    IF Len(s) >= 2 /\ s[2] = "}" THEN
      LET rest == FormatterParse(SubSeq(s, 3, Len(s)))
      IN [ok |-> rest.ok, tokens |-> <<Literal("}")>> \o rest.tokens]
    ELSE [ok |-> FALSE, tokens |-> <<>>]
  ELSE
    LET rest == FormatterParse(Tail(s))
    IN [ok |-> rest.ok, tokens |-> <<Literal(Head(s))>> \o rest.tokens]

\* get_template_variables: the field names of the template
TemplateVariables(t) ==
  LET p == FormatterParse(t)
  IN {p.tokens[i].s : i \in {j \in 1..Len(p.tokens) : ~p.tokens[j].lit}}

RECURSIVE Render(_, _)
Render(tokens, value) ==
  IF tokens = <<>> THEN <<>>
  ELSE (IF Head(tokens).lit THEN Head(tokens).s ELSE value)
       \o Render(Tail(tokens), value)

\* variant: the field is filled with the key's name, not with its value
FormatPromptKeyName(t, value) == Render(FormatterParse(t).tokens, FillKey)

\* prompt.format(input_string=value): every field is replaced by the value
\* (all fields are the fill key once the key check passed)
FormatPrompt(t, value) == Render(FormatterParse(t).tokens, value)


\* StrictFormatter.validate_input_variables, run only by builds of the
\* library whose PromptTemplate validates by default: format the template
\* with a dummy value for the declared key; the first field that cannot be
\* resolved raises (IndexError for an unnamed field, KeyError reported as
\* ValueError for an undeclared name)
RECURSIVE FirstFieldError(_)
FirstFieldError(tokens) ==
  IF tokens = <<>> THEN ""
  ELSE IF Head(tokens).lit \/ Head(tokens).s = FillKey
       THEN FirstFieldError(Tail(tokens))
  ELSE IF Head(tokens).s = <<>> THEN "IndexError"
  ELSE "ValueError: Invalid prompt schema"

ValidateTemplate(t) ==
  LET err == FirstFieldError(FormatterParse(t).tokens)
  IN IF err # "" THEN err
     ELSE IF FillKey \notin TemplateVariables(t)   \* check_unused_args
          THEN "ValueError: Invalid prompt schema"
          ELSE ""

\* ------------------------------------------------------------- the model
\* the model argument: any object with a predict-like call.  "echo" returns
\* the prompt, "canned" a fixed text, "raising" raises on call.
Models == {"echo", "canned", "raising"}
CannedText == <<"Negative">>

Predict(model, p) == IF model = "echo" THEN p ELSE CannedText

\* ------------------------------------------------------------------ state
VARIABLES
  validate_template,  \* the installed library validates templates by default
  pc,                 \* position inside run_llm_chain
  input_string, template_string, model,   \* the arguments of the invocation
  input_variables,    \* prompt_template.input_variables
  prompt,             \* the filled prompt, <<>> or <<text>>
  sent,               \* the prompts the endpoint received in this invocation
  produced,           \* what the endpoint produced, <<>> or <<text>>
  endpoint_error,     \* the exception the endpoint raised, "" if none
  result,             \* the returned string, <<>> or <<text>>
  raised,             \* the exception that left run_llm_chain, "" if none
  prev,               \* an earlier completed invocation, <<>> or <<record>>
  tpc,                \* position inside the MLflow cells
  runs,               \* the runs of the experiment on the tracking server
  now,                \* the tracking server's clock
  my_run,             \* run id of the run this notebook started, 0 if none
  last_run_id,        \* line 270, 0 if not set
  registered,         \* run id whose artifact was registered, 0 if none
  failure,            \* the MLflow call that raised, "" if none
  trace               \* the MLflow calls made, in order

chain_vars ==
  <<pc, input_string, template_string, model, input_variables, prompt, sent,
    produced, endpoint_error, result, raised>>
track_vars ==
  <<tpc, runs, now, my_run, last_run_id, registered, failure, trace>>
vars == <<validate_template, chain_vars, prev, track_vars>>

Init ==
  /\ validate_template \in BOOLEAN
  /\ pc = "idle"
  /\ input_string = <<>>
  /\ template_string = <<>>
  /\ model = "echo"
  /\ input_variables = {}
  /\ prompt = <<>>
  /\ sent = <<>>
  /\ produced = <<>>
  /\ endpoint_error = ""
  /\ result = <<>>
  /\ raised = ""
  /\ prev = <<>>
  /\ tpc = "set_experiment"
  /\ runs = {}
  /\ now = 0
  /\ my_run = 0
  /\ last_run_id = 0
  /\ registered = 0
  /\ failure = ""
  /\ trace = <<>>

\* --------------------------------------------------------- run_llm_chain
\* def run_llm_chain(input_string, template_string, model)
Invoke(T) ==
  /\ pc = "idle"
  /\ \E i \in Inputs, t \in T, m \in Models :
       /\ input_string' = i
       /\ template_string' = t
       /\ model' = m
  /\ pc' = "PromptTemplate"
  /\ UNCHANGED <<validate_template, input_variables, prompt, sent, produced,
                 endpoint_error, result, raised, prev, track_vars>>

Call == Invoke(Templates)

CallNamed == Invoke(NamedTemplates)

Raise(e) ==
  /\ raised' = e
  /\ pc' = "done"

\* PromptTemplate(input_variables=["input_string"], template=template_string)
\* a template that is not a format string is rejected
PromptTemplateMalformed ==
  /\ pc = "PromptTemplate"
  /\ ~FormatterParse(template_string).ok
  /\ Raise("ValueError: invalid format string")
  /\ UNCHANGED <<validate_template, input_string, template_string, model,
                 input_variables, prompt, sent, produced, endpoint_error,
                 result, prev, track_vars>>

\* validating build: declared and used variables must agree
PromptTemplateInvalid ==
  /\ pc = "PromptTemplate"
  /\ FormatterParse(template_string).ok
  /\ validate_template
  /\ ValidateTemplate(template_string) # ""
  /\ Raise(ValidateTemplate(template_string))
  /\ UNCHANGED <<validate_template, input_string, template_string, model,
                 input_variables, prompt, sent, produced, endpoint_error,
                 result, prev, track_vars>>

\* validating build keeps the declared variables; the other build replaces
\* them by the variables found in the template.  LLMChain(...) follows.
PromptTemplateOk ==
  /\ pc = "PromptTemplate"
  /\ FormatterParse(template_string).ok
  /\ validate_template => ValidateTemplate(template_string) = ""
  /\ input_variables' = IF validate_template THEN {FillKey}
                        ELSE TemplateVariables(template_string)
  /\ pc' = "run"
  /\ UNCHANGED <<validate_template, input_string, template_string, model,
                 prompt, sent, produced, endpoint_error, result, raised, prev,
                 track_vars>>

\* variant: the input keys are not checked
NoMissingKeys == {}

\* model_chain.run({"input_string": input_string}): Chain._validate_inputs
MissingKeys == input_variables \ {FillKey}

\* variant: the key check runs after the endpoint was called with the
\* template as it is
RunMissingKeysAfterCall ==
  /\ pc = "run"
  /\ MissingKeys # {}
  /\ sent' = Append(sent, template_string)
  /\ Raise("ValueError: Missing some input keys")
  /\ UNCHANGED <<validate_template, input_string, template_string, model,
                 input_variables, prompt, produced, endpoint_error, result,
                 prev, track_vars>>

RunMissingKeys ==
  /\ pc = "run"
  /\ MissingKeys # {}
  /\ Raise("ValueError: Missing some input keys")
  /\ UNCHANGED <<validate_template, input_string, template_string, model,
                 input_variables, prompt, sent, produced, endpoint_error,
                 result, prev, track_vars>>

\* LLMChain.prep_prompts: prompt.format_prompt(**selected_inputs)
RunFormat ==
  /\ pc = "run"
  /\ MissingKeys = {}
  /\ prompt' = <<FormatPrompt(template_string, input_string)>>
  /\ pc' = "generate"
  /\ UNCHANGED <<validate_template, input_string, template_string, model,
                 input_variables, sent, produced, endpoint_error, result,
                 raised, prev, track_vars>>

\* variant: an answer kept from an invocation with the same arguments is
\* reused without calling the endpoint
RunGenerateCached ==
  /\ pc = "generate"
  /\ model # "raising"
  /\ LET hit == /\ prev # <<>>
                /\ prev[1].input_string = input_string
                /\ prev[1].template_string = template_string
                /\ prev[1].model = model
                /\ prev[1].result # <<>>
     IN /\ sent' = IF hit THEN sent ELSE Append(sent, prompt[1])
        /\ produced' = IF hit THEN prev[1].result
                       ELSE <<Predict(model, prompt[1])>>
  /\ pc' = "return"
  /\ UNCHANGED <<validate_template, input_string, template_string, model,
                 input_variables, prompt, endpoint_error, result, raised,
                 prev, track_vars>>

\* variant: the chain has a memory, the earlier input is put before the prompt
RunGenerateWithMemory ==
  /\ pc = "generate"
  /\ model # "raising"
  /\ LET history == IF prev = <<>> THEN <<>> ELSE prev[1].input_string
     IN /\ sent' = Append(sent, history \o prompt[1])
        /\ produced' = <<Predict(model, history \o prompt[1])>>
  /\ pc' = "return"
  /\ UNCHANGED <<validate_template, input_string, template_string, model,
                 input_variables, prompt, endpoint_error, result, raised,
                 prev, track_vars>>

\* llm.generate_prompt: the call of the endpoint, which answers
RunGenerate ==
  /\ pc = "generate"
  /\ model # "raising"
  /\ sent' = Append(sent, prompt[1])
  /\ produced' = <<Predict(model, prompt[1])>>
  /\ pc' = "return"
  /\ UNCHANGED <<validate_template, input_string, template_string, model,
                 input_variables, prompt, endpoint_error, result, raised,
                 prev, track_vars>>

\* variant: a failed call of the endpoint is tried a second time
RunGenerateFailsRetried ==
  /\ pc = "generate"
  /\ model = "raising"
  /\ sent' = sent \o <<prompt[1], prompt[1]>>
  /\ endpoint_error' = "EndpointError"
  /\ Raise("EndpointError")
  /\ UNCHANGED <<validate_template, input_string, template_string, model,
                 input_variables, prompt, produced, result, prev, track_vars>>

\* the call of the endpoint raises; Chain.__call__ re-raises the exception
RunGenerateFails ==
  /\ pc = "generate"
  /\ model = "raising"
  /\ sent' = Append(sent, prompt[1])
  /\ endpoint_error' = "EndpointError"
  /\ Raise("EndpointError")
  /\ UNCHANGED <<validate_template, input_string, template_string, model,
                 input_variables, prompt, produced, result, prev, track_vars>>

\* variant: the generated text is cut to its first element
ReturnTruncated ==
  /\ pc = "return"
  /\ result' = <<SubSeq(produced[1], 1, 1)>>
  /\ pc' = "done"
  /\ UNCHANGED <<validate_template, input_string, template_string, model,
                 input_variables, prompt, sent, produced, endpoint_error,
                 raised, prev, track_vars>>

\* return model_chain.run(...): the text of the generation under output_key
Return ==
  /\ pc = "return"
  /\ result' = produced
  /\ pc' = "done"
  /\ UNCHANGED <<validate_template, input_string, template_string, model,
                 input_variables, prompt, sent, produced, endpoint_error,
                 raised, prev, track_vars>>

\* the invocation is over: its locals are gone
Locals ==
  /\ pc' = "idle"
  /\ input_string' = <<>>
  /\ template_string' = <<>>
  /\ model' = "echo"
  /\ input_variables' = {}
  /\ prompt' = <<>>
  /\ sent' = <<>>
  /\ produced' = <<>>
  /\ endpoint_error' = ""
  /\ result' = <<>>
  /\ raised' = ""

Finish ==
  /\ pc = "done"
  /\ Locals
  /\ UNCHANGED <<validate_template, prev, track_vars>>

\* the same, the caller keeping the outcome to compare a later one with
FinishRemember ==
  /\ pc = "done"
  /\ prev' = <<[input_string |-> input_string,
               template_string |-> template_string,
               model |-> model, result |-> result, raised |-> raised]>>
  /\ Locals
  /\ UNCHANGED <<validate_template, track_vars>>

Steps ==
  \/ PromptTemplateMalformed
  \/ PromptTemplateInvalid
  \/ PromptTemplateOk
  \/ RunMissingKeys
  \/ RunFormat
  \/ RunGenerate
  \/ RunGenerateFails
  \/ Return

Next ==
  \/ Call
  \/ Steps
  \/ Finish

Spec == Init /\ [][Next]_vars

NextHist ==
  \/ CallNamed
  \/ Steps
  \/ Finish
  \/ FinishRemember

SpecHist == Init /\ [][NextHist]_vars


\* ------------------------------------------------- claims on run_llm_chain
Placeholder == <<"{", "input_string", "}">>
Braces == {"{", "}"}

\* the template with the three elements at i..i+2 replaced by the value
ReplacedAt(t, i, value) ==
  SubSeq(t, 1, i - 1) \o value \o SubSeq(t, i + 3, Len(t))

FieldCount(t) ==
  LET p == FormatterParse(t)
  IN Cardinality({j \in 1..Len(p.tokens) : ~p.tokens[j].lit})

\* the template is a format string with exactly one field, named input_string
OnePlaceholder(t) ==
  /\ FormatterParse(t).ok
  /\ FieldCount(t) = 1
  /\ TemplateVariables(t) = {FillKey}

\* the text {input_string} occurs at i and no brace occurs anywhere else
PlainAt(t, i) ==
  /\ i + 2 <= Len(t)
  /\ SubSeq(t, i, i + 2) = Placeholder
  /\ \A j \in 1..Len(t) : j \notin i..(i + 2) => t[j] \notin Braces

\* C1 as stated: for every template with exactly one placeholder named
\* input_string, the prompt sent to the endpoint is the template with the
\* placeholder text replaced by the input string and every other character
\* of the template unchanged.
C1_AsStated ==
  (pc = "done" /\ OnePlaceholder(template_string)) =>
    /\ Len(sent) = 1
    /\ \E i \in 1..Len(template_string) :
         /\ i + 2 <= Len(template_string)
         /\ SubSeq(template_string, i, i + 2) = Placeholder
         /\ sent[1] = ReplacedAt(template_string, i, input_string)

\* C1 amended: for every template that consists of one placeholder
\* {input_string} and otherwise brace-free text, the prompt sent to the
\* endpoint is the template with the placeholder replaced by the input
\* string and every other character unchanged.
C1_FilledPrompt ==
  \A i \in 1..Len(template_string) :
    (pc = "done" /\ PlainAt(template_string, i)) =>
      /\ Len(sent) = 1
      /\ sent[1] = ReplacedAt(template_string, i, input_string)

C1_Witness ==
  /\ pc = "done"
  /\ template_string = zero_shot_template
  /\ input_string = <<"{", "a", "}">>
  /\ sent = << <<"a", "{", "a", "}", "a">> >>

\* the template is a format string with named fields only, one of them not
\* named input_string
Mismatched(t) ==
  /\ FormatterParse(t).ok
  /\ <<>> \notin TemplateVariables(t)
  /\ TemplateVariables(t) \ {FillKey} # {}

MissingKeyErrors ==
  {"ValueError: Missing some input keys", "ValueError: Invalid prompt schema"}

\* C2: an invocation with a template that has a placeholder named otherwise
\* than input_string ends in a missing-key error: nothing is returned, no
\* prompt was filled and nothing was sent to the endpoint.
C2_MismatchFails ==
  (pc = "done" /\ Mismatched(template_string)) =>
    /\ raised \in MissingKeyErrors
    /\ result = <<>>
    /\ prompt = <<>>
    /\ sent = <<>>

C2_Witness ==
  /\ pc = "done"
  /\ template_string = intro_template
  /\ ~validate_template
  /\ raised = "ValueError: Missing some input keys"

\* C3: an invocation with a template that has no placeholder at all ends in
\* a failure; the template is not sent to the endpoint unfilled and nothing
\* is returned.
C3_NoPassThrough ==
  (pc = "done" /\ FormatterParse(template_string).ok
     /\ FieldCount(template_string) = 0) =>
    /\ raised # ""
    /\ sent = <<>>
    /\ result = <<>>

SameArguments ==
  /\ prev # <<>>
  /\ prev[1].input_string = input_string
  /\ prev[1].template_string = template_string
  /\ prev[1].model = model

\* C4: an invocation that returns has called the endpoint exactly once, also
\* when an earlier invocation had the same arguments.
C4_ExactlyOneCall ==
  (pc = "done" /\ raised = "") => Len(sent) = 1

C4_Witness ==
  /\ pc = "done"
  /\ raised = ""
  /\ SameArguments
  /\ Len(sent) = 1

\* C5 as stated: the returned string is what the endpoint produced, and with
\* an echoing endpoint, input "X" and template "prefix {y} suffix" the
\* invocation returns "prefix X suffix".
C5_AsStated ==
  /\ (pc = "done" /\ raised = "") => (produced # <<>> /\ result = produced)
  /\ (pc = "done" /\ model = "echo" /\ input_string = <<"X">>
        /\ template_string = prefix_y_suffix) =>
       result = << <<"prefix ", "X", " suffix">> >>

\* C5 amended: the returned string is exactly what the endpoint produced for
\* the filled prompt, and with an echoing endpoint, input "X" and template
\* "prefix {input_string} suffix" the invocation returns "prefix X suffix".
C5_Verbatim ==
  /\ (pc = "done" /\ raised = "") =>
       /\ produced # <<>>
       /\ result = produced
       /\ produced[1] = Predict(model, sent[Len(sent)])
  /\ (pc = "done" /\ model = "echo" /\ input_string = <<"X">>
        /\ template_string = prefix_key_suffix) =>
       result = << <<"prefix ", "X", " suffix">> >>

C5_Witness ==
  /\ pc = "done"
  /\ model = "echo"
  /\ input_string = <<"X">>
  /\ template_string = prefix_key_suffix
  /\ result = << <<"prefix ", "X", " suffix">> >>

\* C6: when the call of the endpoint raises, the invocation ends with that
\* same exception, nothing is returned, and the endpoint was called once.
C6_FailurePropagates ==
  (pc = "done" /\ endpoint_error # "") =>
    /\ raised = endpoint_error
    /\ result = <<>>
    /\ Len(sent) = 1

C6_Witness ==
  /\ pc = "done"
  /\ model = "raising"
  /\ endpoint_error = "EndpointError"
  /\ raised = "EndpointError"

\* C7: an invocation with the same arguments as an earlier one, against a
\* deterministic endpoint, ends as the earlier one did: same returned string,
\* same exception.
C7_SameOutput ==
  (pc = "done" /\ SameArguments) =>
    /\ result = prev[1].result
    /\ raised = prev[1].raised

C7_Witness ==
  /\ pc = "done"
  /\ SameArguments
  /\ model = "echo"
  /\ result # <<>>
  /\ result = prev[1].result

\* C10: the endpoint is called only with a prompt that was filled before,
\* and an invocation that ended in a failure of the template or of the key
\* check has made no call of the endpoint.
C10_FillBeforeCall ==
  /\ sent # <<>> => (prompt # <<>> /\ sent[1] = prompt[1])
  /\ (pc = "done" /\ raised # "" /\ endpoint_error = "") => Len(sent) = 0

C10_Witness ==
  /\ pc = "done"
  /\ template_string = prefix_y_suffix
  /\ raised # ""
  /\ endpoint_error = ""
  /\ Len(sent) = 0


\* ------------------------------------------------------- the MLflow cells
Order ==
  <<"set_experiment", "get_experiment_by_name", "start_run", "log_model",
    "search_runs", "register_model">>

Called(step) == trace' = Append(trace, step)

NewRun(mine, artifact) ==
  [run_id |-> Cardinality(runs) + 1, start_time |-> now + 1, mine |-> mine,
   status |-> "RUNNING", artifact |-> artifact]

\* mlflow.set_experiment(experiment_name): created or reused
SetExperiment ==
  /\ tpc = "set_experiment"
  /\ Called("set_experiment")
  /\ tpc' = "get_experiment_by_name"
  /\ UNCHANGED <<validate_template, chain_vars, prev, runs, now, my_run,
                 last_run_id, registered, failure>>

\* experiment_id = mlflow.get_experiment_by_name(experiment_name).experiment_id
GetExperimentByName ==
  /\ tpc = "get_experiment_by_name"
  /\ Called("get_experiment_by_name")
  /\ tpc' = "start_run"
  /\ UNCHANGED <<validate_template, chain_vars, prev, runs, now, my_run,
                 last_run_id, registered, failure>>

\* with mlflow.start_run(experiment_id=experiment_id):
StartRun ==
  /\ tpc = "start_run"
  /\ Called("start_run")
  /\ runs' = runs \cup {NewRun(TRUE, FALSE)}
  /\ my_run' = Cardinality(runs) + 1
  /\ now' = now + 1
  /\ tpc' = "log_model"
  /\ UNCHANGED <<validate_template, chain_vars, prev, last_run_id, registered,
                 failure>>

EndRun(status, artifact) ==
  runs' = {IF r.run_id = my_run
           THEN [r EXCEPT !.status = status, !.artifact = artifact]
           ELSE r : r \in runs}

\* mlflow.langchain.log_model(llama_chain, model_name, ...) and the end of
\* the with block, which ends the run as FINISHED
LogModel ==
  /\ tpc = "log_model"
  /\ Called("log_model")
  /\ EndRun("FINISHED", TRUE)
  /\ tpc' = "search_runs"
  /\ UNCHANGED <<validate_template, chain_vars, prev, now, my_run,
                 last_run_id, registered, failure>>

\* variant: the exception of log_model is caught and the notebook goes on
LogModelFailsCaught ==
  /\ tpc = "log_model"
  /\ Called("log_model")
  /\ EndRun("FAILED", FALSE)
  /\ failure' = "log_model"
  /\ tpc' = "search_runs"
  /\ UNCHANGED <<validate_template, chain_vars, prev, now, my_run,
                 last_run_id, registered>>

\* log_model raises: the with block ends the run as FAILED and the exception
\* leaves the notebook
LogModelFails ==
  /\ tpc = "log_model"
  /\ Called("log_model")
  /\ EndRun("FAILED", FALSE)
  /\ failure' = "log_model"
  /\ tpc' = "failed"
  /\ UNCHANGED <<validate_template, chain_vars, prev, now, my_run,
                 last_run_id, registered>>

LatestRuns == {r \in runs : \A q \in runs : q.start_time <= r.start_time}

\* runs = mlflow.search_runs([experiment_id])
\* last_run_id = runs.sort_values('start_time', ascending=False).iloc[0].run_id
SearchRuns ==
  /\ tpc = "search_runs"
  /\ Called("search_runs")
  /\ \E r \in LatestRuns : last_run_id' = r.run_id
  /\ tpc' = "register_model"
  /\ UNCHANGED <<validate_template, chain_vars, prev, runs, now, my_run,
                 registered, failure>>

HasArtifact(id) == \E r \in runs : r.run_id = id /\ r.artifact

\* mlflow.register_model(model_uri=f"runs:/{last_run_id}/{model_name}", ...)
RegisterModel ==
  /\ tpc = "register_model"
  /\ HasArtifact(last_run_id)
  /\ Called("register_model")
  /\ registered' = last_run_id
  /\ tpc' = "done"
  /\ UNCHANGED <<validate_template, chain_vars, prev, runs, now, my_run,
                 last_run_id, failure>>

\* an MLflow call other than log_model raises (tracking server failure, or
\* no artifact under the model URI): the exception leaves the notebook
CallFails ==
  /\ tpc \in {"set_experiment", "get_experiment_by_name", "start_run",
              "search_runs", "register_model"}
  /\ Called(tpc)
  /\ failure' = tpc
  /\ tpc' = "failed"
  /\ UNCHANGED <<validate_template, chain_vars, prev, runs, now, my_run,
                 last_run_id, registered>>

\* another notebook or job starts a run in the same experiment, with or
\* without a model logged under the same artifact path
OtherRun ==
  /\ Cardinality({r \in runs : ~r.mine}) < MaxOtherRuns
  /\ \E artifact \in BOOLEAN : runs' = runs \cup {NewRun(FALSE, artifact)}
  /\ now' = now + 1
  /\ UNCHANGED <<validate_template, chain_vars, prev, tpc, my_run,
                 last_run_id, registered, failure, trace>>

NextTrack ==
  \/ SetExperiment
  \/ GetExperimentByName
  \/ StartRun
  \/ LogModel
  \/ LogModelFails
  \/ SearchRuns
  \/ RegisterModel
  \/ CallFails
  \/ OtherRun

SpecTrack == Init /\ [][NextTrack]_vars

\* ----------------------------------------------- claims on the MLflow cells
\* C8: the MLflow calls are made in the order set_experiment,
\* get_experiment_by_name, start_run, log_model, search_runs, register_model;
\* once a call raised, no later call is made, and no model is registered
\* after a failure.
C8_OrderNoRecovery ==
  /\ Len(trace) <= Len(Order)
  /\ trace = SubSeq(Order, 1, Len(trace))
  /\ failure # "" =>
       /\ tpc = "failed"
       /\ trace[Len(trace)] = failure
       /\ registered = 0

C8_Witness ==
  /\ failure = "log_model"
  /\ tpc = "failed"
  /\ \E r \in runs : r.run_id = my_run /\ r.status = "FAILED"
  /\ \E r \in runs : r.start_time > 1 /\ ~r.mine
  /\ registered = 0

\* C9: the run picked for registration is the run in which this notebook
\* logged the model, and the registered artifact is that run's.
C9_RegistersOwnRun ==
  /\ last_run_id # 0 => last_run_id = my_run
  /\ registered # 0 => registered = my_run

====
